---- MODULE Spec2Model ----
(***************************************************************************)
(* AssetVerse server (src/index.js, the revision that starts at line 415): *)
(* the asset request / approve / reject / assign / return lifecycle.       *)
(*                                                                         *)
(* Every route handler is an async function: it runs up to its next        *)
(* `await` on a store call, and other handlers may run in between.  A      *)
(* handler is modelled as a process whose position `pc` names the store    *)
(* call it is about to make; one action per store call.  The store applies *)
(* each single-document read, insert or update atomically.                 *)
(***************************************************************************)
EXTENDS Integers, Sequences, FiniteSets, TLC

\* ---------------------------------------------------------------- bounds
MaxAssets == 1      \* asset documents ever inserted
MaxRequests == 3    \* request documents ever inserted, served one at a time
MaxServed == 6      \* HTTP requests of a run, served one at a time
MaxConcurrentRequests == 2  \* request documents, when handlers interleave
MaxConcurrentServed == 5    \* HTTP requests of a run, when handlers interleave
MaxQty == 2         \* largest quantity a POST /assets body carries
MaxLimit == 1       \* largest packageLimit a registered HR starts with
MaxTeamRequests == 2  \* request documents, in the specifications that follow
MaxTeamServed == 8    \* HTTP requests of a run, when every route is served
MaxBillingServed == 4  \* HTTP requests of a short run over every route
MaxFaultyServed == 4   \* HTTP requests of a run in which store calls fail
MaxUsersServed == 4    \* HTTP requests of a run in which users register
MaxRegistrations == 1  \* POST /user requests of a run
MaxSessions == 1    \* checkout sessions Stripe is asked to create
MaxPayments == 2    \* payment rows ever inserted

\* ------------------------------------------------------------ principals
\* hr1 is a registered HR, e1 and e2 registered employees; x1 holds a valid
\* token and has no user document.
HREmails == {"hr1"}
EmployeeEmails == {"e1", "e2"}
Unregistered == {"x1"}
Emails == HREmails \cup EmployeeEmails \cup Unregistered
NoEmail == "none"

\* The handlers that may be in flight at once; Serial is one at a time.
Handlers == {1, 2}
Serial == {1}

VARIABLES
  users,                 \* usersCollection: email -> document
  assets,                \* assetsCollection, in insertion order; _id = index
  requests,              \* requestsCollection, in insertion order
  assignedAssets,        \* assignedAssetsCollection, in insertion order
  employeeAffiliations,  \* employeeAffiliationsCollection, in insertion order
  payments,              \* paymentsCollection, in insertion order
  sessions,              \* Stripe: the checkout sessions created, ids 1..sessions
  registered,            \* POST /user requests that have arrived so far
  pc,                    \* handler -> the await it stands at
  req,                   \* handler -> the HTTP request it serves
  local,                 \* handler -> the documents it has read (const bindings)
  res,                   \* handler -> the HTTP response it sent
  pre,                   \* handler -> the store as it was when the request arrived
  served                 \* HTTP requests that have arrived so far

DB == <<users, assets, requests, assignedAssets, employeeAffiliations,
        payments>>
billing == <<payments, sessions>>
vars == <<users, assets, requests, assignedAssets, employeeAffiliations,
          payments, sessions, registered, pc, req, local, res, pre, served>>

\* -------------------------------------------------------------- documents
\* findOne answers null when nothing matches: NoDoc stands for null.
NoDoc == [id |-> 0]
NoReq == [op |-> "none", tokenEmail |-> NoEmail, arg |-> 0, hasFields |-> FALSE]
NoLocal == [request |-> NoDoc, asset |-> NoDoc, assigned |-> NoDoc,
            session |-> NoDoc, pkg |-> NoDoc]
NoRes == [status |-> 0, kind |-> "none"]
NoPre == <<>>

\* A user document as POST /user stores it (currentEmployees and packageLimit
\* default to 0); companyAffiliations lists the approvedBy of each entry.
UserDoc(role, limit) ==
  [role |-> role, packageLimit |-> limit, currentEmployees |-> 0,
   companyAffiliations |-> <<>>]

\* packagesCollection: the catalog, which no route writes.  Its package
\* carries an employeeLimit that no HR registers with.
Packages == <<[id |-> 1, employeeLimit |-> MaxLimit + 1]>>

\* findOne / updateOne act on the first matching document: the least of
\* the matching indexes S, 0 when nothing matches.
FirstMatch(S) == IF S = {} THEN 0 ELSE CHOOSE x \in S : \A y \in S : x <= y

\* findOne({_id}) on a collection kept in insertion order.
FindById(coll, id) == IF id \in 1..Len(coll) THEN coll[id] ELSE NoDoc

\* The asset document with this _id, null once deleted.
FindAsset(id) ==
  IF id \in 1..Len(assets) /\ ~assets[id].deleted THEN assets[id] ELSE NoDoc

\* ---------------------------------------------------------------- helpers
Goto(h, p) == pc' = [pc EXCEPT ![h] = p]

\* res.status(s).send(...) followed by the handler's return.
Respond(h, status, kind) ==
  /\ pc' = [pc EXCEPT ![h] = "done"]
  /\ res' = [res EXCEPT ![h] = [status |-> status, kind |-> kind]]

InFlight(o) == Cardinality({h \in Handlers : req[h].op = o})

HROps == {"CreateAsset", "DeleteAsset", "ApproveRequest", "RejectRequest",
          "RemoveEmployee", "CreateCheckoutSession", "ConfirmPayment"}
EmployeeOps == {"SubmitRequest", "ReturnAsset"}

FirstStep(o) ==
  CASE o = "CreateAsset" -> "ca_insert"
    [] o = "DeleteAsset" -> "da_delete"
    [] o = "SubmitRequest" -> "sr_asset"
    [] o = "ApproveRequest" -> "ap_request"
    [] o = "RejectRequest" -> "rj_request"
    [] o = "ReturnAsset" -> "rt_find"
    [] o = "RemoveEmployee" -> "rm_affil"
    [] o = "CreateCheckoutSession" -> "cc_package"
    [] o = "ConfirmPayment" -> "cp_session"
    [] o = "RegisterUser" -> "ru_find"

\* ------------------------------------------------------------------- Init
\* The store after the principals have registered through POST /user, whose
\* body carries the role and (for an HR) the packageLimit; no assets yet.
Init ==
  /\ \E lim \in 0..MaxLimit :
       users = [e \in Emails |->
                  IF e \in HREmails THEN UserDoc("hr", lim)
                  ELSE IF e \in EmployeeEmails THEN UserDoc("employee", 0)
                  ELSE UserDoc("none", 0)]
  /\ assets = <<>>
  /\ requests = <<>>
  /\ assignedAssets = <<>>
  /\ employeeAffiliations = <<>>
  /\ payments = <<>>
  /\ sessions = 0
  /\ registered = 0
  /\ pc = [h \in Handlers |-> "idle"]
  /\ req = [h \in Handlers |-> NoReq]
  /\ local = [h \in Handlers |-> NoLocal]
  /\ res = [h \in Handlers |-> NoRes]
  /\ pre = [h \in Handlers |-> NoPre]
  /\ served = 0

\* ------------------------------------------------- arrival and departure
\* A request arrives with a verified token (verifyJWT set req.tokenEmail).
\* A mode m says how a specification runs the handlers: m.cap bounds the
\* requests ever submitted, m.snap keeps the store at arrival for the
\* properties to compare with, m.budget bounds the HTTP requests of a run.
Arrive(h, r, m) ==
  /\ pc[h] = "idle"
  /\ served < m.budget
  /\ served' = served + 1
  /\ pc' = [pc EXCEPT ![h] = "verify"]
  /\ req' = [req EXCEPT ![h] = r]
  /\ pre' = [pre EXCEPT ![h] = IF m.snap THEN DB ELSE NoPre]
  /\ UNCHANGED <<users, assets, requests, assignedAssets, employeeAffiliations,
                 local, res, billing, registered>>

\* The bodies of POST /assets: a quantity (negative, 0 or positive) with the
\* name and type given, or a body that lacks one of them.
AssetBodies ==
  {[quantity |-> q, hasFields |-> TRUE] : q \in -1..MaxQty}
    \cup {[quantity |-> 1, hasFields |-> FALSE]}

\* POST /assets with a body {productName, productType, quantity}.
BeginCreateAsset(h, m) ==
  /\ Len(assets) + InFlight("CreateAsset") < MaxAssets
  /\ \E c \in Emails, b \in AssetBodies :
       Arrive(h, [op |-> "CreateAsset", tokenEmail |-> c, arg |-> b.quantity,
                  hasFields |-> b.hasFields], m)

\* DELETE /assets/:id.
BeginDeleteAsset(h, m) ==
  \E c \in Emails, a \in 1..MaxAssets :
    Arrive(h, [op |-> "DeleteAsset", tokenEmail |-> c, arg |-> a,
               hasFields |-> TRUE], m)

\* POST /requests with a body {assetId}.
BeginSubmitRequest(h, m) ==
  /\ Len(requests) + InFlight("SubmitRequest") < m.cap
  /\ \E c \in Emails, a \in 1..MaxAssets :
       Arrive(h, [op |-> "SubmitRequest", tokenEmail |-> c, arg |-> a,
                  hasFields |-> TRUE], m)

\* PATCH /requests/:id/approve.
BeginApproveRequest(h, m) ==
  \E c \in Emails, r \in 1..m.cap :
    Arrive(h, [op |-> "ApproveRequest", tokenEmail |-> c, arg |-> r,
               hasFields |-> TRUE], m)

\* PATCH /requests/:id/reject.
BeginRejectRequest(h, m) ==
  \E c \in Emails, r \in 1..m.cap :
    Arrive(h, [op |-> "RejectRequest", tokenEmail |-> c, arg |-> r,
               hasFields |-> TRUE], m)

\* PATCH /assigned-assets/:id/return.
BeginReturnAsset(h, m) ==
  \E c \in Emails, a \in 1..(Len(assignedAssets) + 1) :
    Arrive(h, [op |-> "ReturnAsset", tokenEmail |-> c, arg |-> a,
               hasFields |-> TRUE], m)

\* PATCH /employees/:email/remove: the path names any email.
BeginRemoveEmployee(h, m) ==
  \E c \in Emails, e \in Emails :
    Arrive(h, [op |-> "RemoveEmployee", tokenEmail |-> c, arg |-> e,
               hasFields |-> TRUE], m)

\* POST /create-checkout-session with a body {packageId}.
BeginCreateCheckoutSession(h, m) ==
  /\ sessions + InFlight("CreateCheckoutSession") < MaxSessions
  /\ \E c \in Emails, p \in 1..(Len(Packages) + 1) :
       Arrive(h, [op |-> "CreateCheckoutSession", tokenEmail |-> c,
                  arg |-> [packageId |-> p], hasFields |-> TRUE], m)

\* POST /payment-success with a body {sessionId, packageId}.
BeginConfirmPayment(h, m) ==
  /\ Len(payments) + InFlight("ConfirmPayment") < MaxPayments
  /\ \E c \in Emails, sid \in 1..MaxSessions, p \in 1..(Len(Packages) + 1) :
       Arrive(h, [op |-> "ConfirmPayment", tokenEmail |-> c,
                  arg |-> [sessionId |-> sid, packageId |-> p],
                  hasFields |-> TRUE], m)

\* A request arrives at a route that has no middleware: no token is looked
\* at, the handler starts at once.
ArriveOpen(h, r, m) ==
  /\ pc[h] = "idle"
  /\ served < m.budget
  /\ served' = served + 1
  /\ pc' = [pc EXCEPT ![h] = FirstStep(r.op)]
  /\ req' = [req EXCEPT ![h] = r]
  /\ pre' = [pre EXCEPT ![h] = IF m.snap THEN DB ELSE NoPre]
  /\ UNCHANGED <<users, assets, requests, assignedAssets, employeeAffiliations,
                 local, res, billing>>

\* The bodies of POST /user: an email and a role, with currentEmployees and
\* packageLimit either both given (one employee and a positive limit: a 0
\* is taken as left out) or both left out.
UserBodies ==
  {[email |-> e, role |-> r, hasCounters |-> TRUE,
    currentEmployees |-> 1, packageLimit |-> l] :
     e \in Emails, r \in {"hr", "employee"}, l \in 1..MaxLimit}
    \cup {[email |-> e, role |-> r, hasCounters |-> FALSE,
           currentEmployees |-> 0, packageLimit |-> 0] :
            e \in Emails, r \in {"hr", "employee"}}

\* POST /user.
BeginRegisterUser(h, m) ==
  /\ registered < MaxRegistrations
  /\ registered' = registered + 1
  /\ \E b \in UserBodies :
       ArriveOpen(h, [op |-> "RegisterUser", tokenEmail |-> NoEmail,
                      arg |-> b, hasFields |-> TRUE], m)

\* The response has gone out; the handler's bindings are dropped.
Finish(h) ==
  /\ pc[h] = "done"
  /\ pc' = [pc EXCEPT ![h] = "idle"]
  /\ req' = [req EXCEPT ![h] = NoReq]
  /\ local' = [local EXCEPT ![h] = NoLocal]
  /\ res' = [res EXCEPT ![h] = NoRes]
  /\ pre' = [pre EXCEPT ![h] = NoPre]
  /\ UNCHANGED <<DB, served, sessions, registered>>

\* ---------------------------------------------------------- role middleware
\* Mutant: any registered user passes the role middleware.
RoleAllowedAnyUser(user, o) == user.role # "none"

\* verifyHR / verifyEmployee: the stored role must match the route's.
RoleAllowed(user, o) ==
  \/ o \in HROps /\ user.role = "hr"
  \/ o \in EmployeeOps /\ user.role = "employee"

VerifyRole(h) ==
  /\ pc[h] = "verify"
  /\ IF RoleAllowed(users[req[h].tokenEmail], req[h].op)
       THEN Goto(h, FirstStep(req[h].op)) /\ UNCHANGED res
       ELSE Respond(h, 403, "Forbidden")
  /\ UNCHANGED <<DB, req, local, pre, served, sessions, registered>>

\* ------------------------------------------------------------ POST /assets
\* parseInt(quantity, 10) of a JSON integer is that integer.
ParseQuantity(q) == q

\* The body is refused: a field is missing (0 is falsy) or qty <= 0.
InvalidAssetBody(hasFields, quantity) ==
  \/ ~hasFields
  \/ quantity = 0
  \/ ParseQuantity(quantity) <= 0

\* The asset document built from the body: availableQuantity starts at qty.
NewAsset(id, qty, hr) ==
  [id |-> id, quantity |-> qty, availableQuantity |-> qty, hrEmail |-> hr,
   deleted |-> FALSE]

CreateAssetInsert(h) ==
  /\ pc[h] = "ca_insert"
  /\ IF InvalidAssetBody(req[h].hasFields, req[h].arg)
       THEN /\ Respond(h, 400, "InvalidInput")
            /\ UNCHANGED assets
       ELSE /\ assets' = Append(assets,
                 NewAsset(Len(assets) + 1, ParseQuantity(req[h].arg),
                          req[h].tokenEmail))
            /\ Respond(h, 200, "OK")
  /\ UNCHANGED <<users, requests, assignedAssets, employeeAffiliations,
                 req, local, pre, served, billing, registered>>

\* ------------------------------------------------------ DELETE /assets/:id
\* deleteOne({_id}): the document is gone for every later find and update;
\* its place in the collection is kept so that _ids stay indexes.
DeleteById(coll, id) ==
  IF id \in 1..Len(coll) THEN [coll EXCEPT ![id].deleted = TRUE] ELSE coll

\* The asset is deleted whoever owns it and whatever is assigned from it.
DeleteAssetDelete(h) ==
  /\ pc[h] = "da_delete"
  /\ assets' = DeleteById(assets, req[h].arg)
  /\ Respond(h, 200, "OK")
  /\ UNCHANGED <<users, requests, assignedAssets, employeeAffiliations,
                 req, local, pre, served, billing, registered>>

\* ---------------------------------------------------------- POST /requests
\* Mutant: the availability test off by one (< 0 for < 1).
AssetUnavailableOffByOne(asset) ==
  asset = NoDoc \/ asset.availableQuantity < 0

\* asset.availableQuantity < 1, or no asset at all.
AssetUnavailable(asset) == asset = NoDoc \/ asset.availableQuantity < 1

\* 1. find the asset.
SubmitFindAsset(h) ==
  /\ pc[h] = "sr_asset"
  /\ LET asset == FindAsset(req[h].arg) IN
       IF asset = NoDoc THEN Respond(h, 404, "NotFound") /\ UNCHANGED local
       ELSE IF AssetUnavailable(asset)
         THEN Respond(h, 400, "Unavailable") /\ UNCHANGED local
       ELSE /\ Goto(h, "sr_existing")
            /\ local' = [local EXCEPT ![h].asset = asset]
            /\ UNCHANGED res
  /\ UNCHANGED <<DB, req, pre, served, sessions, registered>>

\* Mutant: the duplicate check looks for an approved request.
PendingForWrongStatus(assetId, email) ==
  {i \in 1..Len(requests) : /\ requests[i].assetId = assetId
                            /\ requests[i].requesterEmail = email
                            /\ requests[i].requestStatus = "approved"}

\* The filter {assetId, requesterEmail, requestStatus: "pending"}.
PendingFor(assetId, email) ==
  {i \in 1..Len(requests) : /\ requests[i].assetId = assetId
                            /\ requests[i].requesterEmail = email
                            /\ requests[i].requestStatus = "pending"}

\* 2. refuse when the employee already has a pending request for the asset.
SubmitFindExisting(h) ==
  /\ pc[h] = "sr_existing"
  /\ IF PendingFor(local[h].asset.id, req[h].tokenEmail) # {}
       THEN Respond(h, 400, "Conflict")
       ELSE Goto(h, "sr_employee") /\ UNCHANGED res
  /\ UNCHANGED <<DB, req, local, pre, served, sessions, registered>>

\* 3. fetch the employee (employee.name throws on null: caught, 500).
SubmitFindEmployee(h) ==
  /\ pc[h] = "sr_employee"
  /\ IF users[req[h].tokenEmail].role = "none"
       THEN Respond(h, 500, "Failed")
       ELSE Goto(h, "sr_insert") /\ UNCHANGED res
  /\ UNCHANGED <<DB, req, local, pre, served, sessions, registered>>

\* The request document: the asset's hrEmail is copied from the snapshot.
NewRequest(id, asset, email) ==
  [id |-> id, assetId |-> asset.id, requesterEmail |-> email,
   hrEmail |-> asset.hrEmail, requestStatus |-> "pending",
   processedBy |-> NoEmail]

\* 4.-5. insert the request.
SubmitInsert(h) ==
  /\ pc[h] = "sr_insert"
  /\ requests' = Append(requests,
       NewRequest(Len(requests) + 1, local[h].asset, req[h].tokenEmail))
  /\ Respond(h, 200, "OK")
  /\ UNCHANGED <<users, assets, assignedAssets, employeeAffiliations,
                 req, local, pre, served, billing, registered>>

\* ------------------------------------------- PATCH /requests/:id/approve
\* !request || request.requestStatus !== "pending"
InvalidRequest(request) == request = NoDoc \/ request.requestStatus # "pending"

\* Validate request.
ApproveFindRequest(h) ==
  /\ pc[h] = "ap_request"
  /\ LET request == FindById(requests, req[h].arg) IN
       IF InvalidRequest(request)
         THEN Respond(h, 400, "InvalidState") /\ UNCHANGED local
         ELSE /\ Goto(h, "ap_asset")
              /\ local' = [local EXCEPT ![h].request = request]
              /\ UNCHANGED res
  /\ UNCHANGED <<DB, req, pre, served, sessions, registered>>

\* Validate asset.
ApproveFindAsset(h) ==
  /\ pc[h] = "ap_asset"
  /\ LET asset == FindAsset(local[h].request.assetId) IN
       IF AssetUnavailable(asset)
         THEN Respond(h, 400, "Unavailable") /\ UNCHANGED local
         ELSE /\ Goto(h, "ap_assigned")
              /\ local' = [local EXCEPT ![h].asset = asset]
              /\ UNCHANGED res
  /\ UNCHANGED <<DB, req, pre, served, sessions, registered>>

\* The filter {assetId, employeeEmail, status: "assigned"}.
AssignedFor(assetId, email) ==
  {i \in 1..Len(assignedAssets) :
     /\ assignedAssets[i].assetId = assetId
     /\ assignedAssets[i].employeeEmail = email
     /\ assignedAssets[i].status = "assigned"}

\* Prevent duplicate assignment.
ApproveFindAssigned(h) ==
  /\ pc[h] = "ap_assigned"
  /\ IF AssignedFor(local[h].request.assetId,
                    local[h].request.requesterEmail) # {}
       THEN Respond(h, 400, "Conflict")
       ELSE Goto(h, "ap_hr") /\ UNCHANGED res
  /\ UNCHANGED <<DB, req, local, pre, served, sessions, registered>>

\* Mutant: the limit test with > for >=.
LimitReachedStrict(hr) ==
  /\ hr.role # "none"
  /\ hr.packageLimit # 0
  /\ hr.currentEmployees > hr.packageLimit

\* hr?.packageLimit && hr.currentEmployees >= hr.packageLimit
\* (a missing user and a packageLimit of 0 are both falsy).
LimitReached(hr) ==
  /\ hr.role # "none"
  /\ hr.packageLimit # 0
  /\ hr.currentEmployees >= hr.packageLimit

\* HR package limit check, on the request's hrEmail; answers 403.
ApproveCheckLimit(h) ==
  /\ pc[h] = "ap_hr"
  /\ IF LimitReached(users[local[h].request.hrEmail])
       THEN Respond(h, 403, "LimitReached")
       ELSE Goto(h, "ap_dec") /\ UNCHANGED res
  /\ UNCHANGED <<DB, req, local, pre, served, sessions, registered>>

\* Mutant: $set where the code has $inc.
SetAvailable(coll, id, d) ==
  IF id \in 1..Len(coll) /\ ~coll[id].deleted
    THEN [coll EXCEPT ![id].availableQuantity = d]
    ELSE coll

\* updateOne({_id}, {$inc: {availableQuantity: d}}): nothing when no match.
IncAvailable(coll, id, d) ==
  IF id \in 1..Len(coll) /\ ~coll[id].deleted
    THEN [coll EXCEPT ![id].availableQuantity = @ + d]
    ELSE coll

\* Reduce asset quantity.
ApproveDecrement(h) ==
  /\ pc[h] = "ap_dec"
  /\ assets' = IncAvailable(assets, local[h].asset.id, -1)
  /\ Goto(h, "ap_update")
  /\ UNCHANGED <<users, requests, assignedAssets, employeeAffiliations,
                 req, local, res, pre, served, billing,
                 registered>>

\* Mutant: processedBy records the HR the request is addressed to.
ProcessRequestForOwner(coll, id, status, by) ==
  IF id \in 1..Len(coll)
    THEN [coll EXCEPT ![id].requestStatus = status,
                      ![id].processedBy = coll[id].hrEmail]
    ELSE coll

\* updateOne({_id}, {$set: {requestStatus, approvalDate, processedBy}}).
ProcessRequest(coll, id, status, by) ==
  IF id \in 1..Len(coll)
    THEN [coll EXCEPT ![id].requestStatus = status, ![id].processedBy = by]
    ELSE coll

\* Update request.
ApproveUpdateRequest(h) ==
  /\ pc[h] = "ap_update"
  /\ requests' = ProcessRequest(requests, req[h].arg, "approved",
                                req[h].tokenEmail)
  /\ Goto(h, "ap_assign")
  /\ UNCHANGED <<users, assets, assignedAssets, employeeAffiliations,
                 req, local, res, pre, served, billing,
                 registered>>

\* The assignment document.  The source stores no link to the request;
\* `origin` records, for the properties only, whose approval inserted it.
NewAssigned(id, request) ==
  [id |-> id, assetId |-> request.assetId,
   employeeEmail |-> request.requesterEmail, hrEmail |-> request.hrEmail,
   status |-> "assigned", origin |-> request.id]

\* Assign asset.
ApproveAssign(h) ==
  /\ pc[h] = "ap_assign"
  /\ assignedAssets' = Append(assignedAssets,
       NewAssigned(Len(assignedAssets) + 1, local[h].request))
  /\ Goto(h, "ap_affil")
  /\ UNCHANGED <<users, assets, requests, employeeAffiliations,
                 req, local, res, pre, served, billing,
                 registered>>

\* Mutant: the affiliation lookup filters on the wrong status.
InactiveAffiliations(coll, email, hr) ==
  {i \in 1..Len(coll) : /\ coll[i].employeeEmail = email
                        /\ coll[i].hrEmail = hr
                        /\ coll[i].status = "inactive"}

\* The filter {employeeEmail, hrEmail, status: "active"}.
ActiveAffiliations(coll, email, hr) ==
  {i \in 1..Len(coll) : /\ coll[i].employeeEmail = email
                        /\ coll[i].hrEmail = hr
                        /\ coll[i].status = "active"}

\* Employee affiliation: look for an active one.
ApproveFindAffiliation(h) ==
  /\ pc[h] = "ap_affil"
  /\ IF ActiveAffiliations(employeeAffiliations,
          local[h].request.requesterEmail, local[h].request.hrEmail) # {}
       THEN Respond(h, 200, "OK")
       ELSE Goto(h, "ap_affInsert") /\ UNCHANGED res
  /\ UNCHANGED <<DB, req, local, pre, served, sessions, registered>>

NewAffiliation(request) ==
  [employeeEmail |-> request.requesterEmail, hrEmail |-> request.hrEmail,
   status |-> "active"]

ApproveInsertAffiliation(h) ==
  /\ pc[h] = "ap_affInsert"
  /\ employeeAffiliations' =
       Append(employeeAffiliations, NewAffiliation(local[h].request))
  /\ Goto(h, "ap_profile")
  /\ UNCHANGED <<users, assets, requests, assignedAssets,
                 req, local, res, pre, served, billing,
                 registered>>

\* $addToSet of {companyName, approvedBy, approvedAt: new Date()}: the date
\* makes every entry new, so the entry is appended; nothing when no user.
AddCompanyAffiliation(coll, email, hr) ==
  IF email \in DOMAIN coll /\ coll[email].role # "none"
    THEN [coll EXCEPT ![email].companyAffiliations = Append(@, hr)]
    ELSE coll

\* Update employee profile.
ApproveUpdateProfile(h) ==
  /\ pc[h] = "ap_profile"
  /\ users' = AddCompanyAffiliation(users, local[h].request.requesterEmail,
                                    local[h].request.hrEmail)
  /\ Goto(h, "ap_incHR")
  /\ UNCHANGED <<assets, requests, assignedAssets, employeeAffiliations,
                 req, local, res, pre, served, billing,
                 registered>>

\* updateOne({email}, {$inc: {currentEmployees: d}}): nothing when no user.
IncEmployees(coll, email, d) ==
  IF email \in DOMAIN coll /\ coll[email].role # "none"
    THEN [coll EXCEPT ![email].currentEmployees = @ + d]
    ELSE coll

\* Increase HR employee count, then answer.
ApproveIncEmployees(h) ==
  /\ pc[h] = "ap_incHR"
  /\ users' = IncEmployees(users, local[h].request.hrEmail, 1)
  /\ Respond(h, 200, "OK")
  /\ UNCHANGED <<assets, requests, assignedAssets, employeeAffiliations,
                 req, local, pre, served, billing, registered>>

\* -------------------------------------------- PATCH /requests/:id/reject
RejectFindRequest(h) ==
  /\ pc[h] = "rj_request"
  /\ IF InvalidRequest(FindById(requests, req[h].arg))
       THEN Respond(h, 400, "InvalidState")
       ELSE Goto(h, "rj_update") /\ UNCHANGED res
  /\ UNCHANGED <<DB, req, local, pre, served, sessions, registered>>

RejectUpdateRequest(h) ==
  /\ pc[h] = "rj_update"
  /\ requests' = ProcessRequest(requests, req[h].arg, "rejected",
                                req[h].tokenEmail)
  /\ Respond(h, 200, "OK")
  /\ UNCHANGED <<users, assets, assignedAssets, employeeAffiliations,
                 req, local, pre, served, billing, registered>>

\* ------------------------------------- PATCH /assigned-assets/:id/return
\* Mutant: the lookup leaves out employeeEmail.
FindAssignedOfAnyone(id, email) ==
  IF id \in 1..Len(assignedAssets) THEN assignedAssets[id] ELSE NoDoc

\* findOne({_id, employeeEmail: req.tokenEmail}).
FindAssignedOf(id, email) ==
  IF id \in 1..Len(assignedAssets) /\ assignedAssets[id].employeeEmail = email
    THEN assignedAssets[id] ELSE NoDoc

\* Mutant: the status of the assignment is not looked at.
InvalidReturnAnyStatus(assigned) == assigned = NoDoc

\* !assignedAsset || assignedAsset.status !== "assigned"
InvalidReturn(assigned) == assigned = NoDoc \/ assigned.status # "assigned"

ReturnFind(h) ==
  /\ pc[h] = "rt_find"
  /\ LET assigned == FindAssignedOf(req[h].arg, req[h].tokenEmail) IN
       IF InvalidReturn(assigned)
         THEN Respond(h, 400, "InvalidState") /\ UNCHANGED local
         ELSE /\ Goto(h, "rt_set")
              /\ local' = [local EXCEPT ![h].assigned = assigned]
              /\ UNCHANGED res
  /\ UNCHANGED <<DB, req, pre, served, sessions, registered>>

\* updateOne({_id}, {$set: {status: "returned", returnDate}}).
MarkReturned(coll, id) ==
  IF id \in 1..Len(coll) THEN [coll EXCEPT ![id].status = "returned"] ELSE coll

ReturnSetReturned(h) ==
  /\ pc[h] = "rt_set"
  /\ assignedAssets' = MarkReturned(assignedAssets, req[h].arg)
  /\ Goto(h, "rt_inc")
  /\ UNCHANGED <<users, assets, requests, employeeAffiliations,
                 req, local, res, pre, served, billing,
                 registered>>

ReturnIncrement(h) ==
  /\ pc[h] = "rt_inc"
  /\ assets' = IncAvailable(assets, local[h].assigned.assetId, 1)
  /\ Goto(h, "rt_request")
  /\ UNCHANGED <<users, requests, assignedAssets, employeeAffiliations,
                 req, local, res, pre, served, billing,
                 registered>>

\* updateOne({assetId, requesterEmail}, {$set: {requestStatus: "returned"}}):
\* the filter names no status and no _id, so the first request of that
\* employee for that asset is the one updated.
ReturnRequest(coll, assetId, email) ==
  LET i == FirstMatch({k \in 1..Len(coll) :
                         /\ coll[k].assetId = assetId
                         /\ coll[k].requesterEmail = email}) IN
    IF i = 0 THEN coll ELSE [coll EXCEPT ![i].requestStatus = "returned"]

ReturnUpdateRequest(h) ==
  /\ pc[h] = "rt_request"
  /\ requests' = ReturnRequest(requests, local[h].assigned.assetId,
                               req[h].tokenEmail)
  /\ Respond(h, 200, "OK")
  /\ UNCHANGED <<users, assets, assignedAssets, employeeAffiliations,
                 req, local, pre, served, billing, registered>>

\* ------------------------------------------ PATCH /employees/:email/remove
\* updateOne({employeeEmail, hrEmail}, {$set: {status: "inactive"}}): the
\* filter names no status, so the first affiliation of the pair is the one
\* updated, active or not.
DeactivateAffiliation(coll, email, hr) ==
  LET i == FirstMatch({k \in 1..Len(coll) :
                         /\ coll[k].employeeEmail = email
                         /\ coll[k].hrEmail = hr}) IN
    IF i = 0 THEN coll ELSE [coll EXCEPT ![i].status = "inactive"]

RemoveDeactivate(h) ==
  /\ pc[h] = "rm_affil"
  /\ employeeAffiliations' =
       DeactivateAffiliation(employeeAffiliations, req[h].arg,
                             req[h].tokenEmail)
  /\ Goto(h, "rm_dec")
  /\ UNCHANGED <<users, assets, requests, assignedAssets,
                 req, local, res, pre, served, billing,
                 registered>>

\* The caller's currentEmployees goes down by 1, whatever it is and
\* whatever the first update matched.
RemoveDecEmployees(h) ==
  /\ pc[h] = "rm_dec"
  /\ users' = IncEmployees(users, req[h].tokenEmail, -1)
  /\ Goto(h, "rm_pull")
  /\ UNCHANGED <<assets, requests, assignedAssets, employeeAffiliations,
                 req, local, res, pre, served, billing,
                 registered>>

\* updateOne({email}, {$pull: {companyAffiliations: {approvedBy: hr}}}).
PullCompanyAffiliation(coll, email, hr) ==
  IF email \in DOMAIN coll /\ coll[email].role # "none"
    THEN [coll EXCEPT ![email].companyAffiliations =
            SelectSeq(@, LAMBDA by : by # hr)]
    ELSE coll

RemovePullProfile(h) ==
  /\ pc[h] = "rm_pull"
  /\ users' = PullCompanyAffiliation(users, req[h].arg, req[h].tokenEmail)
  /\ Respond(h, 200, "OK")
  /\ UNCHANGED <<assets, requests, assignedAssets, employeeAffiliations,
                 req, local, pre, served, billing, registered>>

\* ------------------------------------------ POST /create-checkout-session
CheckoutFindPackage(h) ==
  /\ pc[h] = "cc_package"
  /\ LET pkg == FindById(Packages, req[h].arg.packageId) IN
       IF pkg = NoDoc THEN Respond(h, 404, "NotFound") /\ UNCHANGED local
       ELSE /\ Goto(h, "cc_stripe")
            /\ local' = [local EXCEPT ![h].pkg = pkg]
            /\ UNCHANGED res
  /\ UNCHANGED <<DB, req, pre, served, sessions, registered>>

\* stripe.checkout.sessions.create: Stripe holds one more session.
CheckoutCreateSession(h) ==
  /\ pc[h] = "cc_stripe"
  /\ sessions' = sessions + 1
  /\ Respond(h, 200, "OK")
  /\ UNCHANGED <<DB, req, local, pre, served, registered>>

\* -------------------------------------------------- POST /payment-success
\* stripe.checkout.sessions.retrieve(sessionId): the session with its
\* payment_intent, one per session; null stands for the throw on an id
\* Stripe does not know.
RetrieveSession(sid) ==
  IF sid \in 1..sessions THEN [id |-> sid, payment_intent |-> sid] ELSE NoDoc

ConfirmRetrieveSession(h) ==
  /\ pc[h] = "cp_session"
  /\ LET session == RetrieveSession(req[h].arg.sessionId) IN
       IF session = NoDoc THEN Respond(h, 500, "Failed") /\ UNCHANGED local
       ELSE /\ Goto(h, "cp_package")
            /\ local' = [local EXCEPT ![h].session = session]
            /\ UNCHANGED res
  /\ UNCHANGED <<DB, req, pre, served, sessions, registered>>

ConfirmFindPackage(h) ==
  /\ pc[h] = "cp_package"
  /\ LET pkg == FindById(Packages, req[h].arg.packageId) IN
       IF pkg = NoDoc THEN Respond(h, 404, "NotFound") /\ UNCHANGED local
       ELSE /\ Goto(h, "cp_insert")
            /\ local' = [local EXCEPT ![h].pkg = pkg]
            /\ UNCHANGED res
  /\ UNCHANGED <<DB, req, pre, served, sessions, registered>>

\* The ledger row.
NewPayment(hr, pkg, session) ==
  [hrEmail |-> hr, employeeLimit |-> pkg.employeeLimit,
   transactionId |-> session.payment_intent, status |-> "completed"]

\* Mutant: the row is keyed on the transaction id (an upsert).
UpsertPayment(coll, row) ==
  IF \E k \in 1..Len(coll) : coll[k].transactionId = row.transactionId
    THEN coll ELSE Append(coll, row)

\* insertOne(row): no key, the row is appended.
InsertPayment(coll, row) == Append(coll, row)

ConfirmInsertPayment(h) ==
  /\ pc[h] = "cp_insert"
  /\ payments' = InsertPayment(payments,
       NewPayment(req[h].tokenEmail, local[h].pkg, local[h].session))
  /\ Goto(h, "cp_limit")
  /\ UNCHANGED <<users, assets, requests, assignedAssets,
                 employeeAffiliations, sessions,
                 req, local, res, pre, served, registered>>

\* updateOne({email}, {$set: {packageLimit}}).
SetPackageLimit(coll, email, limit) ==
  IF email \in DOMAIN coll /\ coll[email].role # "none"
    THEN [coll EXCEPT ![email].packageLimit = limit]
    ELSE coll

ConfirmSetLimit(h) ==
  /\ pc[h] = "cp_limit"
  /\ users' = SetPackageLimit(users, req[h].tokenEmail,
                              local[h].pkg.employeeLimit)
  /\ Respond(h, 200, "OK")
  /\ UNCHANGED <<assets, requests, assignedAssets, employeeAffiliations,
                 req, local, pre, served, billing, registered>>

\* --------------------------------------------------------------- POST /user
\* userData.x = userData.x || 0: a field left out of the body (and a 0)
\* becomes 0.
OrZero(given, value) == IF given THEN value ELSE 0

RegisterFind(h) ==
  /\ pc[h] = "ru_find"
  /\ IF users[req[h].arg.email].role # "none"
       THEN Goto(h, "ru_update")
       ELSE Goto(h, "ru_insert")
  /\ UNCHANGED <<DB, req, local, res, pre, served, sessions, registered>>

\* Mutant: the $set leaves out the counters the body did not give.
SetUserKeepingCounters(coll, body) ==
  [coll EXCEPT ![body.email].role = body.role,
               ![body.email].currentEmployees =
                  IF body.hasCounters THEN body.currentEmployees ELSE @,
               ![body.email].packageLimit =
                  IF body.hasCounters THEN body.packageLimit ELSE @]

\* updateOne({email}, {$set: {...userData}}), the counters defaulted: the
\* fields of userData replace the stored ones, the others stay.
SetUser(coll, body) ==
  [coll EXCEPT ![body.email].role = body.role,
               ![body.email].currentEmployees =
                  OrZero(body.hasCounters, body.currentEmployees),
               ![body.email].packageLimit =
                  OrZero(body.hasCounters, body.packageLimit)]

RegisterUpdate(h) ==
  /\ pc[h] = "ru_update"
  /\ users' = SetUser(users, req[h].arg)
  /\ Respond(h, 200, "OK")
  /\ UNCHANGED <<assets, requests, assignedAssets, employeeAffiliations,
                 req, local, pre, served, billing, registered>>

\* insertOne(userData), the counters defaulted.
InsertUser(coll, body) ==
  [coll EXCEPT ![body.email] =
     [role |-> body.role,
      packageLimit |-> OrZero(body.hasCounters, body.packageLimit),
      currentEmployees |-> OrZero(body.hasCounters, body.currentEmployees),
      companyAffiliations |-> <<>>]]

RegisterInsert(h) ==
  /\ pc[h] = "ru_insert"
  /\ users' = InsertUser(users, req[h].arg)
  /\ Respond(h, 200, "OK")
  /\ UNCHANGED <<assets, requests, assignedAssets, employeeAffiliations,
                 req, local, pre, served, billing, registered>>

\* ------------------------------------------------------------ catch (err)
\* Mutant: the catch block gives the unit back to the asset it has read.
CatchRestores(coll, asset) ==
  IF asset = NoDoc THEN coll ELSE IncAvailable(coll, asset.id, 1)

\* What the catch block of a handler writes to the assets: nothing.
CatchWrites(coll, asset) == coll

\* The store call a handler awaits rejects: the handler's catch block logs
\* the error and answers 500; the call that failed has no effect.
StoreFails(h) ==
  /\ pc[h] \notin {"idle", "verify", "done"}
  /\ assets' = CatchWrites(assets, local[h].asset)
  /\ Respond(h, 500, "Failed")
  /\ UNCHANGED <<users, requests, assignedAssets, employeeAffiliations,
                 req, local, pre, served, billing, registered>>

\* ------------------------------------------------------- specifications
\* Everything handler h can do next, in mode m.
Handle(h, m) ==
  \/ BeginCreateAsset(h, m)
  \/ BeginDeleteAsset(h, m)
  \/ BeginSubmitRequest(h, m)
  \/ BeginApproveRequest(h, m)
  \/ BeginRejectRequest(h, m)
  \/ BeginReturnAsset(h, m)
  \/ VerifyRole(h)
  \/ CreateAssetInsert(h)
  \/ DeleteAssetDelete(h)
  \/ SubmitFindAsset(h)
  \/ SubmitFindExisting(h)
  \/ SubmitFindEmployee(h)
  \/ SubmitInsert(h)
  \/ ApproveFindRequest(h)
  \/ ApproveFindAsset(h)
  \/ ApproveFindAssigned(h)
  \/ ApproveCheckLimit(h)
  \/ ApproveDecrement(h)
  \/ ApproveUpdateRequest(h)
  \/ ApproveAssign(h)
  \/ ApproveFindAffiliation(h)
  \/ ApproveInsertAffiliation(h)
  \/ ApproveUpdateProfile(h)
  \/ ApproveIncEmployees(h)
  \/ RejectFindRequest(h)
  \/ RejectUpdateRequest(h)
  \/ ReturnFind(h)
  \/ ReturnSetReturned(h)
  \/ ReturnIncrement(h)
  \/ ReturnUpdateRequest(h)
  \/ Finish(h)

SerialMode == [cap |-> MaxRequests, snap |-> TRUE, budget |-> MaxServed]
ConcurrentMode ==
  [cap |-> MaxConcurrentRequests, snap |-> FALSE,
   budget |-> MaxConcurrentServed]

\* Requests served one at a time: each handler runs to completion.
Next == \E h \in Serial : Handle(h, SerialMode)
Spec == Init /\ [][Next]_vars

\* Requests served concurrently: handlers interleave at their awaits.
NextConcurrent == \E h \in Handlers : Handle(h, ConcurrentMode)
SpecConcurrent == Init /\ [][NextConcurrent]_vars

\* Everything handler h can do next when the team and billing routes are
\* served as well.
HandleAll(h, m) ==
  \/ Handle(h, m)
  \/ BeginRemoveEmployee(h, m)
  \/ BeginCreateCheckoutSession(h, m)
  \/ BeginConfirmPayment(h, m)
  \/ RemoveDeactivate(h)
  \/ RemoveDecEmployees(h)
  \/ RemovePullProfile(h)
  \/ CheckoutFindPackage(h)
  \/ CheckoutCreateSession(h)
  \/ ConfirmRetrieveSession(h)
  \/ ConfirmFindPackage(h)
  \/ ConfirmInsertPayment(h)
  \/ ConfirmSetLimit(h)

TeamMode == [cap |-> MaxTeamRequests, snap |-> TRUE, budget |-> MaxTeamServed]

\* Every route, requests served one at a time.
NextTeam == \E h \in Serial : HandleAll(h, TeamMode)
SpecTeam == Init /\ [][NextTeam]_vars

BillingMode ==
  [cap |-> MaxTeamRequests, snap |-> TRUE, budget |-> MaxBillingServed]

\* Every route, requests served one at a time, shorter runs.
NextBilling == \E h \in Serial : HandleAll(h, BillingMode)
SpecBilling == Init /\ [][NextBilling]_vars

UsersMode ==
  [cap |-> MaxTeamRequests, snap |-> TRUE, budget |-> MaxUsersServed]

\* POST /user next to the routes that create, request and approve, requests
\* served one at a time.
NextUsers ==
  \E h \in Serial :
    \/ BeginRegisterUser(h, UsersMode)
    \/ RegisterFind(h)
    \/ RegisterUpdate(h)
    \/ RegisterInsert(h)
    \/ BeginCreateAsset(h, UsersMode)
    \/ BeginSubmitRequest(h, UsersMode)
    \/ BeginApproveRequest(h, UsersMode)
    \/ VerifyRole(h)
    \/ CreateAssetInsert(h)
    \/ SubmitFindAsset(h)
    \/ SubmitFindExisting(h)
    \/ SubmitFindEmployee(h)
    \/ SubmitInsert(h)
    \/ ApproveFindRequest(h)
    \/ ApproveFindAsset(h)
    \/ ApproveFindAssigned(h)
    \/ ApproveCheckLimit(h)
    \/ ApproveDecrement(h)
    \/ ApproveUpdateRequest(h)
    \/ ApproveAssign(h)
    \/ ApproveFindAffiliation(h)
    \/ ApproveInsertAffiliation(h)
    \/ ApproveUpdateProfile(h)
    \/ ApproveIncEmployees(h)
    \/ Finish(h)
SpecUsers == Init /\ [][NextUsers]_vars

FaultyMode ==
  [cap |-> MaxTeamRequests, snap |-> TRUE, budget |-> MaxFaultyServed]

\* The lifecycle routes, served one at a time, over a store whose calls
\* may fail.
NextFaulty == \E h \in Serial : Handle(h, FaultyMode) \/ StoreFails(h)
SpecFaulty == Init /\ [][NextFaulty]_vars

\* ------------------------------------------------------------ properties
\* Handler h has answered a request for operation o.
Done(h, o) == pc[h] = "done" /\ req[h].op = o
Succeeded(h, o) == Done(h, o) /\ res[h].kind = "OK"

\* The store as it was when h's request arrived (kept when the mode snaps).
Snapped(h) == pre[h] # NoPre
PreUsers(h) == pre[h][1]
PreAssets(h) == pre[h][2]
PreRequests(h) == pre[h][3]
PreAssigned(h) == pre[h][4]
PreAffiliations(h) == pre[h][5]
PrePayments(h) == pre[h][6]

\* The caller held the role the route asks for when the request arrived.
CalledByHR(h) == PreUsers(h)[req[h].tokenEmail].role = "hr"
CalledByEmployee(h) == PreUsers(h)[req[h].tokenEmail].role = "employee"

\* The asset documents that exist.
LiveAssets == {i \in 1..Len(assets) : ~assets[i].deleted}

\* C1: for every asset, 0 <= availableQuantity <= quantity, whatever
\* sequence of requests (created, submitted, approved, rejected, returned,
\* deleted) has been served one at a time.
C1_AvailableWithinQuantity ==
  \A i \in LiveAssets :
    /\ 0 <= assets[i].availableQuantity
    /\ assets[i].availableQuantity <= assets[i].quantity

\* C1's case: an asset was approved down to 0 and a return has been served.
C1_Witness ==
  /\ \E i \in LiveAssets : assets[i].availableQuantity = 0
  /\ \E j \in 1..Len(assignedAssets) : assignedAssets[j].status = "returned"
  /\ \A h \in Handlers : pc[h] = "idle"

\* C2: two concurrent approvals of two different requests against the same
\* asset never both succeed leaving the asset's availableQuantity negative
\* (with one unit available, one of them is refused).
C2_OneOfTwoApprovalsRefused ==
  \A h1, h2 \in Handlers :
    (/\ h1 # h2
     /\ Succeeded(h1, "ApproveRequest")
     /\ Succeeded(h2, "ApproveRequest")
     /\ req[h1].arg # req[h2].arg
     /\ requests[req[h1].arg].assetId = requests[req[h2].arg].assetId)
    => assets[requests[req[h1].arg].assetId].availableQuantity >= 0

\* The end-to-end run's store before each of its steps.
E2EBeforeSubmit(h) ==
  /\ Len(PreAssets(h)) = 1
  /\ PreAssets(h)[1].availableQuantity = PreAssets(h)[1].quantity
  /\ ~PreAssets(h)[1].deleted
  /\ PreRequests(h) = <<>>
  /\ PreAssigned(h) = <<>>
  /\ PreAffiliations(h) = <<>>

E2EBeforeApprove(h) ==
  /\ Len(PreAssets(h)) = 1
  /\ PreAssets(h)[1].availableQuantity = PreAssets(h)[1].quantity
  /\ ~PreAssets(h)[1].deleted
  /\ Len(PreRequests(h)) = 1
  /\ PreRequests(h)[1].requestStatus = "pending"
  /\ PreAssigned(h) = <<>>
  /\ PreAffiliations(h) = <<>>

E2EBeforeReturn(h) ==
  /\ Len(PreAssets(h)) = 1
  /\ PreAssets(h)[1].availableQuantity = PreAssets(h)[1].quantity - 1
  /\ ~PreAssets(h)[1].deleted
  /\ Len(PreRequests(h)) = 1
  /\ PreRequests(h)[1].requestStatus = "approved"
  /\ Len(PreAssigned(h)) = 1
  /\ PreAssigned(h)[1].status = "assigned"

\* C3: the end-to-end run.  CreateAsset with quantity q gives
\* availableQuantity = q; SubmitRequest gives a pending request;
\* ApproveRequest gives the request approved, availableQuantity = q - 1,
\* one assigned AssignedAsset, one active EmployeeAffiliation and the HR's
\* currentEmployees one higher; ReturnAsset gives the AssignedAsset
\* returned, availableQuantity = q and the request returned.
C3_EndToEnd ==
  \A h \in Handlers :
    /\ (Done(h, "CreateAsset") /\ Snapped(h) /\ CalledByHR(h)
          /\ req[h].hasFields /\ req[h].arg >= 1)
       => /\ res[h].kind = "OK"
          /\ Len(assets) = Len(PreAssets(h)) + 1
          /\ assets[Len(assets)].quantity = req[h].arg
          /\ assets[Len(assets)].availableQuantity = req[h].arg
    /\ (Done(h, "SubmitRequest") /\ Snapped(h) /\ CalledByEmployee(h)
          /\ E2EBeforeSubmit(h) /\ req[h].arg = 1)
       => /\ res[h].kind = "OK"
          /\ Len(requests) = 1
          /\ requests[1].requestStatus = "pending"
          /\ requests[1].requesterEmail = req[h].tokenEmail
          /\ assets = PreAssets(h)
    /\ (Done(h, "ApproveRequest") /\ Snapped(h) /\ CalledByHR(h)
          /\ E2EBeforeApprove(h) /\ req[h].arg = 1)
       => /\ res[h].kind = "OK"
          /\ Len(requests) = 1
          /\ requests[1].requestStatus = "approved"
          /\ assets[1].availableQuantity = assets[1].quantity - 1
          /\ Len(assignedAssets) = 1
          /\ assignedAssets[1].status = "assigned"
          /\ assignedAssets[1].employeeEmail = requests[1].requesterEmail
          /\ Len(employeeAffiliations) = 1
          /\ employeeAffiliations[1].status = "active"
          /\ employeeAffiliations[1].employeeEmail = requests[1].requesterEmail
          /\ users[requests[1].hrEmail].currentEmployees =
               PreUsers(h)[requests[1].hrEmail].currentEmployees + 1
    /\ (Done(h, "ReturnAsset") /\ Snapped(h) /\ E2EBeforeReturn(h)
          /\ req[h].arg = 1
          /\ req[h].tokenEmail = PreAssigned(h)[1].employeeEmail)
       => /\ res[h].kind = "OK"
          /\ Len(assignedAssets) = 1
          /\ assignedAssets[1].status = "returned"
          /\ assets[1].availableQuantity = assets[1].quantity
          /\ Len(requests) = 1
          /\ requests[1].requestStatus = "returned"

\* C3's case: the run reached its last step, the return.
C3_Witness ==
  \E h \in Handlers :
    /\ Succeeded(h, "ReturnAsset") /\ Snapped(h) /\ E2EBeforeReturn(h)
    /\ assets[1].quantity = MaxQty

\* C4: ApproveRequest, called by an HR on a pending request whose asset has
\* availableQuantity = 0, is refused as Unavailable and writes nothing.
C4_ApproveUnavailableNoWrites ==
  \A h \in Handlers :
    (/\ Done(h, "ApproveRequest") /\ Snapped(h) /\ CalledByHR(h)
     /\ req[h].arg \in 1..Len(PreRequests(h))
     /\ PreRequests(h)[req[h].arg].requestStatus = "pending"
     /\ LET a == PreRequests(h)[req[h].arg].assetId IN
          ~PreAssets(h)[a].deleted /\ PreAssets(h)[a].availableQuantity = 0)
    => /\ res[h].kind = "Unavailable"
       /\ DB = pre[h]

\* C4's case: such an approval was refused.
C4_Witness ==
  \E h \in Handlers :
    /\ Done(h, "ApproveRequest") /\ Snapped(h) /\ CalledByHR(h)
    /\ req[h].arg \in 1..Len(PreRequests(h))
    /\ PreRequests(h)[req[h].arg].requestStatus = "pending"
    /\ LET a == PreRequests(h)[req[h].arg].assetId IN
         ~PreAssets(h)[a].deleted /\ PreAssets(h)[a].availableQuantity = 0
    /\ res[h].kind = "Unavailable"

\* The requests of employee e for asset a that were pending when h's
\* request arrived.
PrePending(h, a, e) ==
  {i \in 1..Len(PreRequests(h)) :
     /\ PreRequests(h)[i].assetId = a
     /\ PreRequests(h)[i].requesterEmail = e
     /\ PreRequests(h)[i].requestStatus = "pending"}

\* A SubmitRequest by an employee who already has a pending request for
\* the asset has been answered.
ResubmittedWhilePending(h) ==
  /\ Done(h, "SubmitRequest") /\ Snapped(h) /\ CalledByEmployee(h)
  /\ PrePending(h, req[h].arg, req[h].tokenEmail) # {}

\* The asset of h's SubmitRequest, as it was when the request arrived.
PreAssetOf(h, a) ==
  IF a \in 1..Len(PreAssets(h)) /\ ~PreAssets(h)[a].deleted
    THEN PreAssets(h)[a] ELSE NoDoc

\* C5 as stated: SubmitRequest by an employee who already has a pending
\* request for the asset fails with Conflict and inserts no request.
C5_ResubmitConflict ==
  \A h \in Handlers :
    ResubmittedWhilePending(h)
    => res[h].kind = "Conflict" /\ requests = PreRequests(h)

\* C5 amended: such a SubmitRequest is refused and writes nothing; the
\* refusal is Conflict when the asset still exists with availableQuantity
\* >= 1, and otherwise NotFound (asset deleted) or Unavailable (none left),
\* because the asset is checked before the pending request is looked for.
C5_ResubmitRefused ==
  \A h \in Handlers :
    ResubmittedWhilePending(h)
    => /\ DB = pre[h]
       /\ LET asset == PreAssetOf(h, req[h].arg) IN
            res[h].kind = IF asset = NoDoc THEN "NotFound"
                          ELSE IF asset.availableQuantity < 1 THEN "Unavailable"
                          ELSE "Conflict"

\* C5's case: a resubmission was refused with Conflict.
C5_Witness ==
  \E h \in Handlers : ResubmittedWhilePending(h) /\ res[h].kind = "Conflict"

\* C6: at most one pending request per (assetId, requesterEmail), in every
\* state, however the SubmitRequest handlers interleave.
C6_OnePendingPerPair ==
  \A i, j \in 1..Len(requests) :
    (/\ requests[i].assetId = requests[j].assetId
     /\ requests[i].requesterEmail = requests[j].requesterEmail
     /\ requests[i].requestStatus = "pending"
     /\ requests[j].requestStatus = "pending")
    => i = j

\* A ReturnAsset by an employee for an AssignedAsset that is not the
\* caller's, or that is already returned, has been answered.
ReturnedForeignOrTwice(h) ==
  /\ Done(h, "ReturnAsset") /\ Snapped(h) /\ CalledByEmployee(h)
  /\ req[h].arg \in 1..Len(PreAssigned(h))
  /\ \/ PreAssigned(h)[req[h].arg].employeeEmail # req[h].tokenEmail
     \/ PreAssigned(h)[req[h].arg].status = "returned"

\* C7: ReturnAsset on an AssignedAsset that does not belong to the caller,
\* or that is already returned, fails with InvalidState and changes no
\* AssignedAsset, Asset or Request (nor any other document).
C7_InvalidReturnNoWrites ==
  \A h \in Handlers :
    ReturnedForeignOrTwice(h)
    => res[h].kind = "InvalidState" /\ DB = pre[h]

\* C7's case: the owner tried to return an AssignedAsset a second time.
C7_Witness ==
  \E h \in Handlers :
    /\ ReturnedForeignOrTwice(h)
    /\ PreAssigned(h)[req[h].arg].employeeEmail = req[h].tokenEmail
    /\ PreAssigned(h)[req[h].arg].status = "returned"

\* An ApproveRequest by an HR for a pending request whose HR had
\* packageLimit > 0 and currentEmployees >= packageLimit has been answered.
ApprovedAtLimit(h) ==
  /\ Done(h, "ApproveRequest") /\ Snapped(h) /\ CalledByHR(h)
  /\ req[h].arg \in 1..Len(PreRequests(h))
  /\ PreRequests(h)[req[h].arg].requestStatus = "pending"
  /\ LET hr == PreUsers(h)[PreRequests(h)[req[h].arg].hrEmail] IN
       hr.packageLimit > 0 /\ hr.currentEmployees >= hr.packageLimit

\* The requester of h's request was actively affiliated with its HR.
WasAffiliated(h) ==
  LET r == PreRequests(h)[req[h].arg] IN
    \E k \in 1..Len(PreAffiliations(h)) :
      /\ PreAffiliations(h)[k].employeeEmail = r.requesterEmail
      /\ PreAffiliations(h)[k].hrEmail = r.hrEmail
      /\ PreAffiliations(h)[k].status = "active"

\* The checks that come before the limit check pass: the asset exists with
\* availableQuantity >= 1 and the requester holds no assigned unit of it.
PassesEarlierChecks(h) ==
  LET r == PreRequests(h)[req[h].arg] IN
    /\ PreAssetOf(h, r.assetId) # NoDoc
    /\ PreAssetOf(h, r.assetId).availableQuantity >= 1
    /\ \A j \in 1..Len(PreAssigned(h)) :
         ~(/\ PreAssigned(h)[j].assetId = r.assetId
           /\ PreAssigned(h)[j].employeeEmail = r.requesterEmail
           /\ PreAssigned(h)[j].status = "assigned")

\* C8 as stated: whenever the request's HR is at its limit, ApproveRequest
\* fails with LimitReached and writes nothing.
C8_LimitReachedAlways ==
  \A h \in Handlers :
    ApprovedAtLimit(h) => res[h].kind = "LimitReached" /\ DB = pre[h]

\* C8 amended: at the limit ApproveRequest is always refused and writes
\* nothing; the refusal is LimitReached when the earlier checks pass (also
\* when the requester is already affiliated), and otherwise the refusal of
\* the earlier check that fails: Unavailable or Conflict.
C8_LimitReachedAfterEarlierChecks ==
  \A h \in Handlers :
    ApprovedAtLimit(h)
    => /\ DB = pre[h]
       /\ res[h].kind \in {"LimitReached", "Unavailable", "Conflict"}
       /\ PassesEarlierChecks(h) <=> res[h].kind = "LimitReached"

\* C8's case: the approval was refused with LimitReached although the
\* requester was already actively affiliated with the HR.
C8_Witness ==
  \E h \in Handlers :
    /\ ApprovedAtLimit(h) /\ WasAffiliated(h)
    /\ res[h].kind = "LimitReached"

\* C9: a successful ApproveRequest raises the currentEmployees of the
\* request's HR by exactly 1 when the requester had no active affiliation
\* with that HR, and leaves it unchanged when the requester had one.
C9_SeatCountedOnce ==
  \A h \in Handlers :
    (Succeeded(h, "ApproveRequest") /\ Snapped(h))
    => LET hr == PreRequests(h)[req[h].arg].hrEmail IN
         users[hr].currentEmployees =
           PreUsers(h)[hr].currentEmployees
             + (IF WasAffiliated(h) THEN 0 ELSE 1)

\* C9's case: a first approval counted the employee, and a later approval
\* for the same, still affiliated employee has succeeded.
C9_Witness ==
  \E h \in Handlers :
    /\ Succeeded(h, "ApproveRequest") /\ Snapped(h) /\ WasAffiliated(h)
    /\ users[PreRequests(h)[req[h].arg].hrEmail].currentEmployees = 1

\* C10: every AssignedAsset with status assigned has its originating
\* request in status approved, in every state, however the handlers
\* interleave.
C10_AssignedImpliesApproved ==
  \A j \in 1..Len(assignedAssets) :
    assignedAssets[j].status = "assigned"
    => requests[assignedAssets[j].origin].requestStatus = "approved"

\* A request for an HR-only route from a principal that is no HR, or for an
\* employee-only route from a principal that is no employee, was answered.
CalledWithoutRole(h) ==
  /\ pc[h] = "done" /\ Snapped(h)
  /\ \/ /\ req[h].op \in {"CreateAsset", "DeleteAsset", "ApproveRequest",
                          "RejectRequest", "RemoveEmployee",
                          "CreateCheckoutSession", "ConfirmPayment"}
        /\ PreUsers(h)[req[h].tokenEmail].role # "hr"
     \/ /\ req[h].op \in {"SubmitRequest", "ReturnAsset"}
        /\ PreUsers(h)[req[h].tokenEmail].role # "employee"

\* C11: every HR-only operation called by a principal whose user record is
\* missing or whose role is not hr, and every employee-only operation
\* called by a principal whose role is not employee, fails with Forbidden
\* (403) and changes no document.
C11_ForbiddenNoWrites ==
  \A h \in Handlers :
    CalledWithoutRole(h)
    => /\ res[h] = [status |-> 403, kind |-> "Forbidden"]
       /\ DB = pre[h]

\* C11's case: an employee asked to remove a team member who is affiliated.
C11_Witness ==
  \E h \in Handlers :
    /\ CalledWithoutRole(h) /\ req[h].op = "RemoveEmployee"
    /\ PreUsers(h)[req[h].tokenEmail].role = "employee"
    /\ \E k \in 1..Len(employeeAffiliations) :
         /\ employeeAffiliations[k].employeeEmail = req[h].arg
         /\ employeeAffiliations[k].status = "active"

\* The moves a request's status may make.
RequestMoves ==
  {<<"pending", "approved">>, <<"pending", "rejected">>,
   <<"approved", "returned">>}

\* C12: a request's status only ever moves pending -> approved, pending ->
\* rejected or approved -> returned (so a rejected or returned request
\* never changes again and a pending one never becomes returned), and no
\* request is deleted, over any sequence of SubmitRequest, ApproveRequest,
\* RejectRequest and ReturnAsset operations.
C12_RequestStateMachine ==
  [][/\ Len(requests') >= Len(requests)
     /\ \A i \in 1..Len(requests) :
          \/ requests'[i].requestStatus = requests[i].requestStatus
          \/ <<requests[i].requestStatus, requests'[i].requestStatus>>
               \in RequestMoves]_vars

\* C13: a successful ReturnAsset of AssignedAsset a sets to returned the
\* request whose approval created a, and changes the status of no other
\* request, also when the employee has several requests for the asset.
C13_ReturnMarksOriginatingRequest ==
  \A h \in Handlers :
    (Succeeded(h, "ReturnAsset") /\ Snapped(h))
    => LET origin == PreAssigned(h)[req[h].arg].origin IN
         requests = [PreRequests(h) EXCEPT ![origin].requestStatus = "returned"]

\* C14: at most one AssignedAsset with status assigned exists per
\* (assetId, employeeEmail), in every state, however the ApproveRequest
\* handlers interleave.
C14_OneAssignedPerPair ==
  \A i, j \in 1..Len(assignedAssets) :
    (/\ assignedAssets[i].assetId = assignedAssets[j].assetId
     /\ assignedAssets[i].employeeEmail = assignedAssets[j].employeeEmail
     /\ assignedAssets[i].status = "assigned"
     /\ assignedAssets[j].status = "assigned")
    => i = j

\* C15: for each (employeeEmail, hrEmail) pair at most one
\* EmployeeAffiliation document is ever inserted (no route deletes one),
\* over any sequence of ApproveRequest and RemoveEmployee operations.
C15_OneAffiliationPerPair ==
  \A i, j \in 1..Len(employeeAffiliations) :
    (/\ employeeAffiliations[i].employeeEmail =
          employeeAffiliations[j].employeeEmail
     /\ employeeAffiliations[i].hrEmail = employeeAffiliations[j].hrEmail)
    => i = j

\* C16: after a successful RemoveEmployee(hr, employee) no
\* EmployeeAffiliation of (employee, hr) has status active, whatever
\* sequence of ApproveRequest and RemoveEmployee operations came before.
C16_RemovedIsInactive ==
  \A h \in Handlers :
    Succeeded(h, "RemoveEmployee")
    => \A k \in 1..Len(employeeAffiliations) :
         ~(/\ employeeAffiliations[k].employeeEmail = req[h].arg
           /\ employeeAffiliations[k].hrEmail = req[h].tokenEmail
           /\ employeeAffiliations[k].status = "active")

\* C17: hr.currentEmployees >= 0 in every state reached by any sequence of
\* ApproveRequest and RemoveEmployee operations, RemoveEmployee for an
\* employee without an active affiliation, or called twice, included.
C17_EmployeesNonNegative ==
  \A e \in Emails : users[e].role = "hr" => users[e].currentEmployees >= 0

\* C18: for an HR with a fixed packageLimit L > 0 (and currentEmployees
\* <= L to start with) currentEmployees <= L in every state, however the
\* ApproveRequest handlers for that HR interleave.
C18_EmployeesWithinLimit ==
  \A e \in Emails :
    (users[e].role = "hr" /\ users[e].packageLimit > 0)
    => users[e].currentEmployees <= users[e].packageLimit

\* The rows of a ledger that carry transaction id t.
RowsOf(ledger, t) == {k \in 1..Len(ledger) : ledger[k].transactionId = t}

\* C19: ConfirmPayment is not idempotent.  Each successful call appends
\* exactly one Payment row, whose transactionId is the session's, also
\* when rows of that transaction exist already, and sets the caller's
\* packageLimit to the package's employeeLimit; no request ever updates or
\* deletes an existing Payment row.
C19_ConfirmAppendsRow ==
  \A h \in Handlers :
    /\ (pc[h] = "done" /\ Snapped(h))
       => /\ Len(payments) >= Len(PrePayments(h))
          /\ SubSeq(payments, 1, Len(PrePayments(h))) = PrePayments(h)
    /\ (Succeeded(h, "ConfirmPayment") /\ Snapped(h))
       => LET t == req[h].arg.sessionId
              limit == Packages[req[h].arg.packageId].employeeLimit IN
            /\ Len(payments) = Len(PrePayments(h)) + 1
            /\ payments[Len(payments)].transactionId = t
            /\ payments[Len(payments)].hrEmail = req[h].tokenEmail
            /\ payments[Len(payments)].employeeLimit = limit
            /\ Cardinality(RowsOf(payments, t)) =
                 Cardinality(RowsOf(PrePayments(h), t)) + 1
            /\ users[req[h].tokenEmail].packageLimit = limit

\* C19's case: the same checkout session was confirmed a second time.
C19_Witness ==
  \E h \in Handlers :
    /\ Succeeded(h, "ConfirmPayment") /\ Snapped(h)
    /\ RowsOf(PrePayments(h), req[h].arg.sessionId) # {}
    /\ Cardinality(RowsOf(payments, req[h].arg.sessionId)) = 2

\* C20: every business-rule refusal of ApproveRequest (InvalidState,
\* Unavailable, Conflict, LimitReached) is answered with HTTP status 400,
\* the refusal for a reached employee limit in particular.
C20_RefusalsAnswer400 ==
  \A h \in Handlers :
    (/\ Done(h, "ApproveRequest")
     /\ res[h].kind \in {"InvalidState", "Unavailable", "Conflict",
                         "LimitReached"})
    => res[h].status = 400

\* An ApproveRequest was answered 500 after a store call of it failed.
ApproveFailed(h) ==
  /\ Done(h, "ApproveRequest") /\ Snapped(h) /\ res[h].status = 500

\* The writes of h's approval, in the order the handler makes them, as
\* they show in the store.
DecrementApplied(h) ==
  /\ req[h].arg \in 1..Len(PreRequests(h))
  /\ LET a == PreRequests(h)[req[h].arg].assetId IN
       assets = [PreAssets(h) EXCEPT ![a].availableQuantity = @ - 1]
RequestApplied(h) ==
  requests = [PreRequests(h) EXCEPT ![req[h].arg].requestStatus = "approved",
                                    ![req[h].arg].processedBy = req[h].tokenEmail]
AssignApplied(h) ==
  /\ Len(assignedAssets) = Len(PreAssigned(h)) + 1
  /\ assignedAssets[Len(assignedAssets)].origin = req[h].arg
  /\ SubSeq(assignedAssets, 1, Len(PreAssigned(h))) = PreAssigned(h)
AffiliationApplied(h) ==
  Len(employeeAffiliations) = Len(PreAffiliations(h)) + 1

\* C21: ApproveRequest has no rollback.  When a store call fails the caller
\* gets a 500 and the writes already applied remain: the store holds the
\* first k writes of the approval (decrement, request update, assignment,
\* affiliation, profile) for some k, none of them undone.
C21_NoRollback ==
  \A h \in Handlers :
    ApproveFailed(h)
    => /\ res[h].kind = "Failed"
       /\ payments = PrePayments(h)
       /\ \/ DB = pre[h]
          \/ /\ DecrementApplied(h)
             /\ \/ requests = PreRequests(h) /\ assignedAssets = PreAssigned(h)
                   /\ employeeAffiliations = PreAffiliations(h)
                   /\ users = PreUsers(h)
                \/ /\ RequestApplied(h)
                   /\ \/ assignedAssets = PreAssigned(h)
                         /\ employeeAffiliations = PreAffiliations(h)
                         /\ users = PreUsers(h)
                      \/ /\ AssignApplied(h)
                         /\ \/ employeeAffiliations = PreAffiliations(h)
                               /\ users = PreUsers(h)
                            \/ AffiliationApplied(h)

\* C21's case: the decrement stayed and no AssignedAsset was created for
\* the request.
C21_Witness ==
  \E h \in Handlers :
    /\ ApproveFailed(h) /\ DecrementApplied(h)
    /\ assignedAssets = PreAssigned(h)
    /\ \A j \in 1..Len(assignedAssets) : assignedAssets[j].origin # req[h].arg

\* No handler is between two of its store calls.
Quiescent == \A h \in Handlers : pc[h] \in {"idle", "done"}

\* The units of asset i that are out with employees.
AssignedUnits(i) ==
  Cardinality({j \in 1..Len(assignedAssets) :
                 /\ assignedAssets[j].assetId = i
                 /\ assignedAssets[j].status = "assigned"})

\* C22: inventory conservation.  For every existing asset, whenever no
\* handler is mid-execution, availableQuantity plus the number of its
\* AssignedAssets with status assigned equals quantity, however the
\* handlers interleave.
C22_InventoryConserved ==
  Quiescent
  => \A i \in LiveAssets :
       assets[i].availableQuantity + AssignedUnits(i) = assets[i].quantity

\* The active affiliations that name HR e.
ActiveSeats(e) ==
  Cardinality({k \in 1..Len(employeeAffiliations) :
                 /\ employeeAffiliations[k].hrEmail = e
                 /\ employeeAffiliations[k].status = "active"})

\* C23: seat accounting.  For every HR, whenever no handler is
\* mid-execution, currentEmployees equals the number of EmployeeAffiliation
\* documents with that hrEmail and status active, over any sequence of
\* ApproveRequest and RemoveEmployee operations from currentEmployees = 0.
C23_SeatsMatchAffiliations ==
  Quiescent
  => \A e \in Emails :
       users[e].role = "hr" => users[e].currentEmployees = ActiveSeats(e)

\* C24: each request gives rise to at most one AssignedAsset (and so, the
\* decrement coming before the insert in the same handler, to at most one
\* decrement of its asset's availableQuantity), however the ApproveRequest
\* handlers interleave, two calls for the same request included.
C24_OneAssignmentPerRequest ==
  \A i, j \in 1..Len(assignedAssets) :
    assignedAssets[i].origin = assignedAssets[j].origin => i = j

\* A POST /user for an email that is already stored, with a body that
\* leaves out currentEmployees and packageLimit, was answered.
ReRegisteredWithoutCounters(h) ==
  /\ Done(h, "RegisterUser") /\ Snapped(h)
  /\ PreUsers(h)[req[h].arg.email].role # "none"
  /\ ~req[h].arg.hasCounters

\* C25: POST /user for a stored email, with a body that omits
\* currentEmployees and packageLimit, overwrites the stored
\* currentEmployees and packageLimit of that user with 0 (and touches no
\* other user).
C25_ReRegisterResetsCounters ==
  \A h \in Handlers :
    ReRegisteredWithoutCounters(h)
    => LET e == req[h].arg.email IN
         /\ res[h].kind = "OK"
         /\ users[e].currentEmployees = 0
         /\ users[e].packageLimit = 0
         /\ users[e].companyAffiliations = PreUsers(h)[e].companyAffiliations
         /\ \A o \in Emails \ {e} : users[o] = PreUsers(h)[o]

\* C25's case: the user was an HR with a paid limit and a counted employee.
C25_Witness ==
  \E h \in Handlers :
    /\ ReRegisteredWithoutCounters(h)
    /\ PreUsers(h)[req[h].arg.email].currentEmployees > 0
    /\ PreUsers(h)[req[h].arg.email].packageLimit > 0

\* An HR other than the one a pending request is addressed to asked to
\* approve it, the request's asset being available and not yet assigned to
\* the requester.
ApprovedByAnotherHR(h) ==
  /\ Done(h, "ApproveRequest") /\ Snapped(h) /\ CalledByHR(h)
  /\ req[h].arg \in 1..Len(PreRequests(h))
  /\ PreRequests(h)[req[h].arg].requestStatus = "pending"
  /\ PreRequests(h)[req[h].arg].hrEmail # req[h].tokenEmail
  /\ PassesEarlierChecks(h)

\* The HR the request is addressed to was at its limit.
OwnerAtLimit(h) ==
  LET h1 == PreUsers(h)[PreRequests(h)[req[h].arg].hrEmail] IN
    h1.packageLimit > 0 /\ h1.currentEmployees >= h1.packageLimit

\* What such an approval does to the request and to the HR h1 it is
\* addressed to: refused with LimitReached when h1 is at its limit,
\* whatever the caller's counters; otherwise it succeeds, counts the
\* employee on h1 and records the caller in processedBy.
AnotherHROutcome(h) ==
  LET r == PreRequests(h)[req[h].arg] IN
    IF OwnerAtLimit(h)
      THEN res[h].kind = "LimitReached" /\ DB = pre[h]
      ELSE /\ res[h].kind = "OK"
           /\ requests[req[h].arg].requestStatus = "approved"
           /\ requests[req[h].arg].processedBy = req[h].tokenEmail
           /\ users[r.hrEmail].currentEmployees =
                PreUsers(h)[r.hrEmail].currentEmployees
                  + (IF WasAffiliated(h) THEN 0 ELSE 1)

\* C26 as stated: ApproveRequest of a pending request addressed to HR h1,
\* called by another HR h2, succeeds; the limit check and the
\* currentEmployees increment apply to h1 only, processedBy records h2 and
\* h2's user document is unchanged.
C26_AnotherHRApproves ==
  \A h \in Handlers :
    ApprovedByAnotherHR(h)
    => /\ AnotherHROutcome(h)
       /\ users[req[h].tokenEmail] = PreUsers(h)[req[h].tokenEmail]

\* C26 amended: the same, h2's user document being unchanged unless h2 is
\* also the requester (an employee who has since registered as an HR), in
\* which case the approval adds h1 to h2's companyAffiliations when h2 had
\* no active affiliation with h1.
C26_AnotherHRApprovesOwnRequest ==
  \A h \in Handlers :
    ApprovedByAnotherHR(h)
    => LET h2 == req[h].tokenEmail
           r == PreRequests(h)[req[h].arg] IN
         /\ AnotherHROutcome(h)
         /\ users[h2] =
              IF h2 = r.requesterEmail /\ res[h].kind = "OK"
                   /\ ~WasAffiliated(h)
                THEN [PreUsers(h)[h2] EXCEPT
                        !.companyAffiliations = Append(@, r.hrEmail)]
                ELSE PreUsers(h)[h2]

\* C26's case: the approval by another HR succeeded although that HR was
\* at its own limit.
C26_Witness ==
  \E h \in Handlers :
    /\ ApprovedByAnotherHR(h) /\ res[h].kind = "OK"
    /\ req[h].tokenEmail # PreRequests(h)[req[h].arg].requesterEmail
    /\ LET h2 == PreUsers(h)[req[h].tokenEmail] IN
         h2.packageLimit > 0 /\ h2.currentEmployees >= h2.packageLimit

====
